---- MODULE Spec2Model ----
(***************************************************************************)
(* Model of the maze generator of src/src/maze.rs: a grid of Blocks, each  *)
(* with four wall flags, a region tag (Block.index) and a visited flag,    *)
(* and the single generation step Maze::run.                               *)
(***************************************************************************)
EXTENDS Integers, Sequences, FiniteSets

VARIABLES
    cols,     \* Maze.cols
    rows,     \* Maze.rows
    blocks,   \* Maze.blocks, indexed from 0 in row-major order
    outcome,  \* what the last run() call did: "new" (no call yet), "merged"
              \* (Some arm), "idle" (None arm) or "panicked" (unwrap of None);
              \* "constructing" while Maze::new has not returned, and
              \* "panicked" also when Maze::new panics
    drawn,    \* the arguments of the last draw_blocks call, << >> before it
    steps     \* the number of run() calls so far that took the Some arm to
              \* its end (break_wall, join_indexes, draw_blocks)

vars == <<cols, rows, blocks, outcome, drawn, steps>>

\* Largest grid dimensions explored.
MaxCols == 4
MaxRows == 4
\* Largest number of cells (cols * rows) of an explored grid.
MaxCells == 7

\* DIRECTION::{UP, RIGHT, DOWN, LEFT} as usize: the position of a wall flag
\* in Block.walls.
UP == 0
RIGHT == 1
DOWN == 2
LEFT == 3

DIRECTIONS == {UP, RIGHT, DOWN, LEFT}

\* Option<usize>: None is the empty sequence, Some(v) is <<v>>.
None == << >>
Some(v) == <<v>>

\* Block::new(x, y, i): all four walls present, region tag i, not visited.
\* The tag is an integer narrower than usize (run() widens it with into());
\* the grids explored here are far below its range.
BlockNew(x, y, i) ==
    [x |-> x, y |-> y, index |-> i,
     walls |-> [d \in DIRECTIONS |-> TRUE], visited |-> FALSE]

\* Positions of the cells of a cols x rows grid, in row-major order.
Positions(c, r) == 0 .. (c * r - 1)

\* Maze::new that counts the blocks from 1 (i += 1 before the push).
MazeNew_from_one(c, r, index_first_block) ==
    [i \in Positions(c, r) |->
        [BlockNew(i % c, i \div c, i + 1)
            EXCEPT !.visited = (i = index_first_block)]]

\* Maze::new(cols, rows), with index_first_block the value drawn from
\* rng.gen_range(0..blocks.len()).
MazeNew(c, r, index_first_block) ==
    [i \in Positions(c, r) |->
        [BlockNew(i % c, i \div c, i) EXCEPT !.visited = (i = index_first_block)]]

\* possible_directions that does not compare the region tags on the left.
possible_directions_left_any(bs, c, r, index) ==
    LET block == bs[index]
        up == IF block.y > 0 /\ block.walls[UP]
                 /\ bs[index - c].index # block.index
              THEN <<index - c>> ELSE << >>
        right == IF block.x < c - 1 /\ block.walls[RIGHT]
                    /\ bs[index + 1].index # block.index
                 THEN <<index + 1>> ELSE << >>
        down == IF block.y < r - 1 /\ block.walls[DOWN]
                   /\ bs[index + c].index # block.index
                THEN <<index + c>> ELSE << >>
        left == IF block.x > 0 /\ block.walls[LEFT]
                THEN <<index - 1>> ELSE << >>
    IN  up \o right \o down \o left

\* possible_directions that pushes the position of the cell itself for the
\* left neighbour.
possible_directions_self(bs, c, r, index) ==
    LET block == bs[index]
        up == IF block.y > 0 /\ block.walls[UP]
                 /\ bs[index - c].index # block.index
              THEN <<index - c>> ELSE << >>
        right == IF block.x < c - 1 /\ block.walls[RIGHT]
                    /\ bs[index + 1].index # block.index
                 THEN <<index + 1>> ELSE << >>
        down == IF block.y < r - 1 /\ block.walls[DOWN]
                   /\ bs[index + c].index # block.index
                THEN <<index + c>> ELSE << >>
        left == IF block.x > 0 /\ block.walls[LEFT]
                   /\ bs[index - 1].index # block.index
                THEN <<index>> ELSE << >>
    IN  up \o right \o down \o left

\* Maze::possible_directions(index) on the blocks bs of a grid with c columns
\* and r rows: the candidate neighbours in the order up, right, down, left.
possible_directions(bs, c, r, index) ==
    LET block == bs[index]
        up == IF block.y > 0 /\ block.walls[UP]
                 /\ bs[index - c].index # block.index
              THEN <<index - c>> ELSE << >>
        right == IF block.x < c - 1 /\ block.walls[RIGHT]
                    /\ bs[index + 1].index # block.index
                 THEN <<index + 1>> ELSE << >>
        down == IF block.y < r - 1 /\ block.walls[DOWN]
                   /\ bs[index + c].index # block.index
                THEN <<index + c>> ELSE << >>
        left == IF block.x > 0 /\ block.walls[LEFT]
                   /\ bs[index - 1].index # block.index
                THEN <<index - 1>> ELSE << >>
    IN  up \o right \o down \o left

\* The elements of a sequence.
Range(s) == {s[k] : k \in 1 .. Len(s)}

\* Maze::get_visited_neighborhood(index): the set of values the call can
\* return, one per outcome of the random choice.
get_visited_neighborhood(bs, c, r, index) ==
    LET dirs == possible_directions(bs, c, r, index)
    IN  IF Len(dirs) = 0 THEN {None}
        ELSE IF Len(dirs) = 1 THEN {Some(dirs[1])}
        ELSE {Some(d) : d \in Range(dirs)}

\* The vector keys built by the loop of get_random_possible_block after it
\* has scanned the first k blocks.
RECURSIVE keys_upto(_, _, _, _)
keys_upto(bs, c, r, k) ==
    IF k = 0 THEN << >>
    ELSE LET index == k - 1
             rest == keys_upto(bs, c, r, k - 1)
         IN  IF Len(possible_directions(bs, c, r, index)) > 0
             THEN Append(rest, bs[index].index)
             ELSE rest

\* Maze::get_random_possible_block(): the set of values the call can return.
get_random_possible_block(bs, c, r) ==
    LET keys == keys_upto(bs, c, r, c * r)
    IN  IF Len(keys) = 0 THEN {None}
        ELSE {Some(k) : k \in Range(keys)}

\* The first two statements of break_wall: both blocks become visited.
set_visited(bs, current_index, next_index) ==
    [[bs EXCEPT ![current_index].visited = TRUE]
         EXCEPT ![next_index].visited = TRUE]

\* The rest of break_wall: the four cases, tried in the order up, right,
\* down, and left as the fall-through.
clear_walls(bs, c, current_index, next_index) ==
    IF current_index = next_index + c
    THEN [[bs EXCEPT ![current_index].walls[UP] = FALSE]
              EXCEPT ![next_index].walls[DOWN] = FALSE]
    ELSE IF next_index > 1 /\ current_index = next_index - 1
    THEN [[bs EXCEPT ![current_index].walls[RIGHT] = FALSE]
              EXCEPT ![next_index].walls[LEFT] = FALSE]
    ELSE IF next_index > c /\ current_index = next_index - c
    THEN [[bs EXCEPT ![current_index].walls[DOWN] = FALSE]
              EXCEPT ![next_index].walls[UP] = FALSE]
    ELSE [[bs EXCEPT ![current_index].walls[LEFT] = FALSE]
              EXCEPT ![next_index].walls[RIGHT] = FALSE]

\* break_wall that marks only the current block visited.
break_wall_current_only(bs, c, current_index, next_index) ==
    clear_walls([bs EXCEPT ![current_index].visited = TRUE],
                c, current_index, next_index)

\* break_wall that rebuilds the walls of the current block, keeping only the
\* new opening.
break_wall_rebuild(bs, c, current_index, next_index) ==
    clear_walls(set_visited([bs EXCEPT ![current_index].walls =
                                          [d \in DIRECTIONS |-> TRUE]],
                            current_index, next_index),
                c, current_index, next_index)

\* Maze::break_wall(current_index, next_index).
break_wall(bs, c, current_index, next_index) ==
    clear_walls(set_visited(bs, current_index, next_index),
                c, current_index, next_index)

\* join_indexes that retags the next block alone.
join_indexes_next_only(bs, current_index, next_index) ==
    [bs EXCEPT ![next_index].index = bs[current_index].index]

\* join_indexes with the two tags read the other way round in the loop: the
\* cells of the current block's region are left alone and nothing is retired.
join_indexes_noop(bs, current_index, next_index) ==
    LET new_index == bs[current_index].index
        old_index == bs[next_index].index
    IN  [i \in DOMAIN bs |->
            IF bs[i].index = new_index
            THEN [bs[i] EXCEPT !.index = new_index]
            ELSE bs[i]]

\* Maze::join_indexes(current_index, next_index).
join_indexes(bs, current_index, next_index) ==
    LET new_index == bs[current_index].index
        old_index == bs[next_index].index
    IN  [i \in DOMAIN bs |->
            IF bs[i].index = old_index
            THEN [bs[i] EXCEPT !.index = new_index]
            ELSE bs[i]]

\* The grids explored: cols >= 1, rows >= 1 within the bounds.
Dims == {d \in (1 .. MaxCols) \X (1 .. MaxRows) : d[1] * d[2] <= MaxCells}

\* The state after Maze::new(cols, rows); no run() call has been made.
Init ==
    \E d \in Dims :
        \E index_first_block \in Positions(d[1], d[2]) :
            /\ cols = d[1]
            /\ rows = d[2]
            /\ blocks = MazeNew(d[1], d[2], index_first_block)
            /\ outcome = "new"
            /\ drawn = << >>
            /\ steps = 0

\* The Some(index) arm of run(): the neighbour is found, the wall is broken,
\* the regions are joined and both blocks are drawn.
RunSome(index, next_block) ==
    /\ blocks' = join_indexes(break_wall(blocks, cols, index, next_block),
                              index, next_block)
    /\ drawn' = <<index, next_block>>
    /\ outcome' = "merged"
    /\ steps' = steps + 1
    /\ UNCHANGED <<cols, rows>>

\* The Some(index) arm of run() when get_visited_neighborhood(index) is None:
\* unwrap() panics and the program stops.
RunPanic ==
    /\ outcome' = "panicked"
    /\ UNCHANGED <<cols, rows, blocks, drawn, steps>>

\* A None arm that builds the grid anew.
RunNone_restart ==
    /\ blocks' = MazeNew(cols, rows, 0)
    /\ outcome' = "idle"
    /\ UNCHANGED <<cols, rows, drawn, steps>>

\* The None arm of run(): nothing is done.
RunNone ==
    /\ outcome' = "idle"
    /\ UNCHANGED <<cols, rows, blocks, drawn, steps>>

\* Maze::run(context), one call.
Run ==
    /\ outcome \notin {"constructing", "panicked"}
    /\ \E random_way \in get_random_possible_block(blocks, cols, rows) :
        IF random_way = None
        THEN RunNone
        ELSE LET index == random_way[1]
             IN  \E nb \in get_visited_neighborhood(blocks, cols, rows, index) :
                    IF nb = None THEN RunPanic ELSE RunSome(index, nb[1])

Next == Run

Spec == Init /\ [][Next]_vars

\* run() is called again and again by the caller's animation loop.
FairSpec == Spec /\ WF_vars(Run)

\* rng.gen_range(0..n): the values the call can return as Some, and None for
\* the panic of rand on an empty range.
gen_range(n) ==
    IF n = 0 THEN {None} ELSE {Some(v) : v \in 0 .. (n - 1)}

\* The arguments of a Maze::new(cols, rows) call, zero included; no Maze
\* exists yet.
InitNew ==
    \E c \in 0 .. MaxCols : \E r \in 0 .. MaxRows :
        /\ c * r <= MaxCells
        /\ cols = c
        /\ rows = r
        /\ blocks = << >>
        /\ outcome = "constructing"
        /\ drawn = << >>
        /\ steps = 0

\* Maze::new that marks no first block when the grid has no block.
New_skip_empty ==
    /\ outcome = "constructing"
    /\ \E g \in gen_range(IF cols * rows = 0 THEN 1 ELSE cols * rows) :
          /\ blocks' = IF cols * rows = 0 THEN << >>
                       ELSE MazeNew(cols, rows, g[1])
          /\ outcome' = "new"
    /\ UNCHANGED <<cols, rows, drawn, steps>>

\* Maze::new(cols, rows): the blocks are pushed, gen_range draws the first
\* block and blocks[index_first_block] is marked; a panic of gen_range, or of
\* the indexing, ends the call without a Maze.
New ==
    /\ outcome = "constructing"
    /\ \E g \in gen_range(cols * rows) :
          IF g # None /\ g[1] \in Positions(cols, rows)
          THEN /\ blocks' = MazeNew(cols, rows, g[1])
               /\ outcome' = "new"
          ELSE /\ outcome' = "panicked"
               /\ UNCHANGED blocks
    /\ UNCHANGED <<cols, rows, drawn, steps>>

NextNew == New \/ Run

\* Construction as a step of its own, followed by run() calls.
SpecNew == InitNew /\ [][NextNew]_vars

(***************************************************************************)
(* Vocabulary of the properties.                                           *)
(***************************************************************************)

Cells == Positions(cols, rows)

\* b is the up / right / down / left neighbour of a in the grid.
Adjacent(a, b) ==
    \/ blocks[a].x = blocks[b].x /\ blocks[a].y = blocks[b].y + 1
    \/ blocks[a].x = blocks[b].x /\ blocks[a].y + 1 = blocks[b].y
    \/ blocks[a].y = blocks[b].y /\ blocks[a].x = blocks[b].x + 1
    \/ blocks[a].y = blocks[b].y /\ blocks[a].x + 1 = blocks[b].x

\* The side of a that faces its neighbour b, by their true relative position.
Facing(a, b) ==
    IF blocks[b].y + 1 = blocks[a].y THEN UP
    ELSE IF blocks[b].x = blocks[a].x + 1 THEN RIGHT
    ELSE IF blocks[b].y = blocks[a].y + 1 THEN DOWN
    ELSE LEFT

\* The edge between the neighbours a and b is open: both facing flags absent.
Open(a, b) ==
    /\ Adjacent(a, b)
    /\ ~blocks[a].walls[Facing(a, b)]
    /\ ~blocks[b].walls[Facing(b, a)]

\* The cells reachable from the cells of S by crossing open edges only.
RECURSIVE Grow(_)
Grow(S) ==
    LET T == S \cup {b \in Cells : \E a \in S : Open(a, b)}
    IN  IF T = S THEN S ELSE Grow(T)

Reachable(c) == Grow({c})

\* The open edges, each as the pair of its two cells, lower position first.
OpenEdges == {e \in Cells \X Cells : e[1] < e[2] /\ Open(e[1], e[2])}

\* The cells that have a candidate edge.
Frontier == {i \in Cells : Len(possible_directions(blocks, cols, rows, i)) > 0}

\* The Complete phase: no cell has a candidate edge.
Complete == Frontier = {}

\* The region tags in use.
Tags == {blocks[i].index : i \in Cells}

\* The cells whose visited flag is set.
Visited == {i \in Cells : blocks[i].visited}

(***************************************************************************)
(* C1. Connectivity: in every state, d is reachable from c through open    *)
(* edges if and only if c and d carry the same region tag.                 *)
(* Violated by the code: see C3.                                           *)
(***************************************************************************)
C1_Connectivity ==
    \A c \in Cells : \A d \in Cells :
        (d \in Reachable(c)) <=> (blocks[c].index = blocks[d].index)

(***************************************************************************)
(* C2. run() never fails: whenever get_random_possible_block can return    *)
(* Some(index), get_visited_neighborhood(index) is not None, and no run()  *)
(* call has panicked.                                                      *)
(* Violated by the code: see C9.                                           *)
(***************************************************************************)
C2_RunNeverFails ==
    /\ outcome # "panicked"
    /\ \A random_way \in get_random_possible_block(blocks, cols, rows) :
          random_way # None =>
             None \notin get_visited_neighborhood(blocks, cols, rows, random_way[1])

(***************************************************************************)
(* C3. Edge opening: after run() has called break_wall(a, b) on the        *)
(* neighbours a and b, the flag of a facing b and the flag of b facing a   *)
(* are both absent.                                                        *)
(* Violated by the code for break_wall(0, 1) and break_wall(0, cols).      *)
(***************************************************************************)
C3_EdgeOpening ==
    drawn # << >> =>
        (Adjacent(drawn[1], drawn[2]) =>
            /\ ~blocks[drawn[1]].walls[Facing(drawn[1], drawn[2])]
            /\ ~blocks[drawn[2]].walls[Facing(drawn[2], drawn[1])])

(***************************************************************************)
(* C4. Spanning-tree edge count: once no cell has a candidate edge,        *)
(* exactly cols * rows - 1 edges are open.                                 *)
(* Violated by the code: see C3.                                           *)
(***************************************************************************)
C4_EdgeCount ==
    Complete => Cardinality(OpenEdges) = cols * rows - 1

(***************************************************************************)
(* C5. Complete implies one region: in every state in which no cell has a  *)
(* candidate edge, all cells carry the same region tag.                    *)
(***************************************************************************)
C5_CompleteOneRegion ==
    Complete => \A c \in Cells : \A d \in Cells : blocks[c].index = blocks[d].index

\* A grid with two rows and two columns that run() calls have driven to the
\* Complete phase, with fewer than cols * rows - 1 open edges.
C5_Witness ==
    /\ Complete /\ outcome = "merged"
    /\ cols >= 2 /\ rows >= 2
    /\ Cardinality(OpenEdges) < cols * rows - 1

(***************************************************************************)
(* C6. Eventual completion: with run() called again and again, the grid    *)
(* eventually is Complete, and once Complete it stays Complete.            *)
(* Violated by the code: a run() call panics before completion (see C2).   *)
(***************************************************************************)
C6_EventualCompletion ==
    /\ <>Complete
    /\ [][Complete => Complete']_vars

C8_IdleAtCompletion ==
    [][Complete =>
          \A i \in Cells :
              /\ blocks'[i].walls = blocks[i].walls
              /\ blocks'[i].index = blocks[i].index]_vars

\* run() has been called on a Complete grid that earlier calls had built.
C8_Witness ==
    Complete /\ outcome = "idle" /\ drawn # << >>

(***************************************************************************)
(* C9. Frontier selection: get_random_possible_block returns None exactly  *)
(* when no cell has a candidate edge; otherwise the values it can return   *)
(* are exactly the positions of the cells that have a candidate edge.      *)
(* Violated by the code: it returns the region tag of such a cell.         *)
(***************************************************************************)
C9_FrontierSelection ==
    LET R == get_random_possible_block(blocks, cols, rows)
    IN  /\ (None \in R) <=> (Frontier = {})
        /\ None \notin R => {random_way[1] : random_way \in R} = Frontier

(***************************************************************************)
(* C10. Wall monotonicity: a wall flag that is absent stays absent in      *)
(* every later state.                                                      *)
(***************************************************************************)
C10_WallMonotone ==
    [][\A i \in Cells : \A d \in DIRECTIONS :
          ~blocks[i].walls[d] => ~blocks'[i].walls[d]]_vars

\* run() has opened a wall of a block that already had an absent flag.
C10_Witness ==
    /\ drawn # << >>
    /\ \E i \in {drawn[1], drawn[2]} :
          Cardinality({d \in DIRECTIONS : ~blocks[i].walls[d]}) >= 2

(***************************************************************************)
(* C11. Candidate edges: possible_directions(index) lists exactly the grid *)
(* neighbours n of the cell for which the flag of the cell facing n is     *)
(* present and the tag of n differs from the tag of the cell, in the order *)
(* up, right, down, left.                                                  *)
(***************************************************************************)
C11_CandidateEdges ==
    \A index \in Cells :
        LET dirs == possible_directions(blocks, cols, rows, index)
        IN  /\ blocks[index].x = index % cols
            /\ blocks[index].y = index \div cols
            /\ Range(dirs) =
                  {n \in Cells :
                      /\ Adjacent(index, n)
                      /\ blocks[index].walls[Facing(index, n)]
                      /\ blocks[n].index # blocks[index].index}
            /\ \A j \in 1 .. Len(dirs) : \A k \in 1 .. Len(dirs) :
                  j < k => Facing(index, dirs[j]) < Facing(index, dirs[k])

\* After run() steps, a cell still has a candidate and has lost a neighbour
\* whose facing flag is present to its own region, and some cell has an
\* absent flag facing a neighbour.
C11_Witness ==
    /\ drawn # << >>
    /\ \E index \in Cells :
          /\ Len(possible_directions(blocks, cols, rows, index)) >= 1
          /\ \E n \in Cells :
                /\ Adjacent(index, n)
                /\ blocks[index].walls[Facing(index, n)]
                /\ blocks[n].index = blocks[index].index
    /\ \E index \in Cells : \E n \in Cells :
          /\ Adjacent(index, n)
          /\ ~blocks[index].walls[Facing(index, n)]

(***************************************************************************)
(* C12. Region merge: for the blocks of every reachable state and every    *)
(* pair of neighbouring positions a, b (the pairs run() can pass, whether  *)
(* or not their tags differ), join_indexes(a, b) gives the tag of a to     *)
(* every cell that held the tag of b, leaves every other tag and every     *)
(* wall flag unchanged, and when the two tags differ leaves no cell with   *)
(* the tag of b.                                                           *)
(***************************************************************************)
C12_RegionMerge ==
    \A a \in Cells : \A b \in {n \in Cells : Adjacent(a, n)} :
        \A after \in {join_indexes(blocks, a, b)} :
            LET kept == blocks[a].index
                retired == blocks[b].index
            IN  /\ DOMAIN after = Cells
                /\ \A i \in Cells :
                      /\ blocks[i].index = retired => after[i].index = kept
                      /\ blocks[i].index # retired =>
                            after[i].index = blocks[i].index
                      /\ after[i].walls = blocks[i].walls
                /\ kept # retired => \A i \in Cells : after[i].index # retired

\* run() has built a region of at least three cells, and another region of at
\* least two cells is left to be joined.
C12_Witness ==
    /\ drawn # << >>
    /\ Cardinality({i \in Cells : blocks[i].index = blocks[drawn[1]].index}) >= 3
    /\ \E b \in Cells :
          /\ blocks[b].index # blocks[drawn[1]].index
          /\ Cardinality({i \in Cells : blocks[i].index = blocks[b].index}) >= 2

(***************************************************************************)
(* C13. Construction with a zero dimension: when cols = 0 or rows = 0,     *)
(* Maze::new ends in a panic and no Maze is ever returned.                 *)
(***************************************************************************)
C13_ZeroDimension ==
    /\ []((cols = 0 \/ rows = 0) =>
             /\ outcome \in {"constructing", "panicked"}
             /\ blocks = << >>)
    /\ [][(outcome = "constructing" /\ (cols = 0 \/ rows = 0)) =>
             outcome' = "panicked"]_vars

\* Maze::new(cols, 0) with cols > 0 has panicked.
C13_Witness ==
    cols > 0 /\ rows = 0 /\ outcome = "panicked"

(***************************************************************************)
(* C14. No self-loop: the two positions run() passes to break_wall,        *)
(* join_indexes and draw_blocks are different, and no position occurs in   *)
(* its own possible_directions result.                                     *)
(***************************************************************************)
C14_NoSelfLoop ==
    /\ drawn # << >> => drawn[1] # drawn[2]
    /\ \A index \in Cells :
          index \notin Range(possible_directions(blocks, cols, rows, index))
    /\ \A random_way \in get_random_possible_block(blocks, cols, rows) :
          random_way # None =>
             Some(random_way[1]) \notin
                get_visited_neighborhood(blocks, cols, rows, random_way[1])

\* run() has joined two blocks and a further call can join two more.
C14_Witness ==
    /\ drawn # << >>
    /\ \E random_way \in get_random_possible_block(blocks, cols, rows) :
          /\ random_way # None
          /\ None \notin
                get_visited_neighborhood(blocks, cols, rows, random_way[1])

(***************************************************************************)
(* C15. Wall-pair symmetry: for every pair of neighbours a and b, the flag *)
(* of a facing b is present if and only if the flag of b facing a is.      *)
(* Violated by the code: see C3.                                           *)
(***************************************************************************)
C15_WallPairSymmetry ==
    \A a \in Cells : \A b \in Cells :
        Adjacent(a, b) =>
            (blocks[a].walls[Facing(a, b)] <=> blocks[b].walls[Facing(b, a)])

(***************************************************************************)
(* C16. Progress measure: every run() call that changes the grid joins two *)
(* cells whose tags differed before the call and lowers the number of      *)
(* distinct tags by exactly one; hence at most cols * rows - 1 calls       *)
(* change the grid.                                                        *)
(***************************************************************************)
C16_ProgressMeasure ==
    /\ [][blocks' # blocks =>
             /\ steps' = steps + 1
             /\ blocks[drawn'[1]].index # blocks[drawn'[2]].index
             /\ blocks'[drawn'[1]].index = blocks'[drawn'[2]].index
             /\ Cardinality({blocks'[i].index : i \in Cells})
                   = Cardinality(Tags) - 1]_vars
    /\ [](steps <= cols * rows - 1)

\* The largest number of grid-changing calls has been made on a grid with at
\* least two rows and two columns.
C16_Witness ==
    cols >= 2 /\ rows >= 2 /\ steps = cols * rows - 1

(***************************************************************************)
(* C17. Region representative: every tag t held by a cell is a position of *)
(* the grid and the cell at position t holds tag t; so every value         *)
(* get_random_possible_block can return is a position of the grid, and so  *)
(* are the two positions run() has used to access blocks.                  *)
(***************************************************************************)
C17_RegionRepresentative ==
    /\ \A i \in Cells :
          /\ blocks[i].index \in Cells
          /\ blocks[blocks[i].index].index = blocks[i].index
    /\ \A random_way \in get_random_possible_block(blocks, cols, rows) :
          random_way # None => random_way[1] \in Cells
    /\ drawn # << >> => drawn[1] \in Cells /\ drawn[2] \in Cells

\* run() has built a region of at least three cells whose tag is not the
\* position of its first cell, and get_random_possible_block can return it.
C17_Witness ==
    /\ drawn # << >>
    /\ \E t \in Tags :
          /\ Cardinality({i \in Cells : blocks[i].index = t}) >= 3
          /\ \E i \in Cells : i < t /\ blocks[i].index = t
          /\ Some(t) \in get_random_possible_block(blocks, cols, rows)

====
